---- MODULE Spec2Model ----
(***************************************************************************)
(* Model of src/src/gemini_webapi/server.py: the FastAPI gateway in front  *)
(* of the Gemini web client.  The state is the module-level client_cache,  *)
(* the GeminiClient objects the handlers construct, the requests being     *)
(* served (each suspended at one of its awaits), the temporary files the   *)
(* handlers create, and the shutdown hook.  asyncio runs one coroutine at  *)
(* a time and switches only at an await, so an action is the code between  *)
(* two awaits of one coroutine.                                            *)
(***************************************************************************)
EXTENDS Integers, Sequences, FiniteSets, TLC

VARIABLES client_cache, clients, requests, shutdown, fs

vars == <<client_cache, clients, requests, shutdown, fs>>

(***************************************************************************)
(* Bounds of the model.                                                    *)
(***************************************************************************)
\* requests served in one run of the session-cache specification (Spec)
MaxReq == 3
\* requests served in one run of SpecRace
MaxRaceReq == 3
\* requests served in one run of SpecSequential
MaxSeqReq == 4
\* requests served in one run of SpecEndpoints
MaxEndpointReq == 2
\* requests served in one run of SpecImage
MaxImageReq == 1
\* requests served in one run of SpecHandlers
MaxHandlerReq == 1
\* uploaded files a generate-with-files request carries, at most
MaxFiles == 2
\* requests served in one run of SpecChat
MaxChatReq == 1
\* requests served in one run of SpecKeys
MaxKeyReq == 2
\* segments of a cookie header of SpecExtract, at most
MaxSegs == 2
\* requests served in one run of SpecFrame
MaxFrameReq == 2
\* requests served in one run of SpecRoundTrip
MaxRoundTripReq == 2

(***************************************************************************)
(* Strings are sequences of one-character strings, so that split, strip,   *)
(* startswith and concatenation are computed as Python computes them.      *)
(* Optional[str] is a record: None, or Some(s).                            *)
(***************************************************************************)
None == [some |-> FALSE, v |-> <<>>]

Some(s) == [some |-> TRUE, v |-> s]

\* Python truthiness of an Optional[str]: None and "" are falsy
Truthy(o) == o.some /\ o.v # <<>>

\* the characters str.strip() removes, those for which str.isspace() holds:
\* U+0009..U+000D and U+001C..U+001F, the space, U+0085, U+00A0 and U+1680,
\* and U+2000..U+200A, U+2028, U+2029, U+202F, U+205F and U+3000, which are
\* written by their code points
Whitespace ==
    {"\t", "\n", "", "\f", "\r", "", "", "", ""} \cup
    {" ", "", " ", " "} \cup
    {"U+2000", "U+2001", "U+2002", "U+2003", "U+2004", "U+2005", "U+2006", "U+2007",
     "U+2008", "U+2009", "U+200A", "U+2028", "U+2029", "U+202F", "U+205F", "U+3000"}

RECURSIVE SplitFrom(_, _, _)
SplitFrom(s, ch, cur) ==
    IF s = <<>> THEN <<cur>>
    ELSE IF Head(s) = ch THEN <<cur>> \o SplitFrom(Tail(s), ch, <<>>)
    ELSE SplitFrom(Tail(s), ch, Append(cur, Head(s)))

\* str.split(ch)
split(s, ch) == SplitFrom(s, ch, <<>>)

RECURSIVE lstrip(_)
lstrip(s) ==
    IF s # <<>> /\ Head(s) \in Whitespace THEN lstrip(Tail(s)) ELSE s

RECURSIVE rstrip(_)
rstrip(s) ==
    IF s # <<>> /\ s[Len(s)] \in Whitespace
    THEN rstrip(SubSeq(s, 1, Len(s) - 1)) ELSE s

\* str.strip()
strip(s) == rstrip(lstrip(s))

\* str.startswith(p)
startswith(s, p) == Len(s) >= Len(p) /\ SubSeq(s, 1, Len(p)) = p

RECURSIVE IndexOf(_, _, _)
IndexOf(s, ch, i) ==
    IF i > Len(s) THEN 0 ELSE IF s[i] = ch THEN i ELSE IndexOf(s, ch, i + 1)

\* s.split("=", 1)[1]: the text after the first "=" (the caller has checked
\* that s starts with a name followed by "=")
AfterLastEq(s) ==
    LET i == CHOOSE j \in 1..Len(s) :
                 s[j] = "=" /\ \A k \in (j + 1)..Len(s) : s[k] # "="
    IN  SubSeq(s, i + 1, Len(s))

AfterFirstEq(s) == SubSeq(s, IndexOf(s, "=", 1) + 1, Len(s))

\* "__Secure-1PSID=" and "__Secure-1PSIDTS="
PsidName == <<"_","_","S","e","c","u","r","e","-","1","P","S","I","D">>

PsidPrefix == PsidName \o <<"=">>

PsidtsPrefix == PsidName \o <<"T","S","=">>

RECURSIVE ParseCookies(_, _, _)
ParseCookies(segs, psid, psidts) ==
    IF segs = <<>> THEN <<psid, psidts>>
    ELSE LET cookie == strip(Head(segs)) IN
         IF startswith(cookie, PsidPrefix)
         THEN ParseCookies(Tail(segs), Some(AfterFirstEq(cookie)), psidts)
         ELSE IF startswith(cookie, PsidtsPrefix)
         THEN ParseCookies(Tail(segs), psid, Some(AfterFirstEq(cookie)))
         ELSE ParseCookies(Tail(segs), psid, psidts)

\* extract_cookies_from_request, given the request's cookie header ("" when
\* the request has none): <<secure_1psid, secure_1psidts>>
extract_cookies_from_request(cookie_header) ==
    ParseCookies(split(cookie_header, ";"), None, None)

\* if not req_psid: raise HTTPException(status_code=400, ...)
MissingPrimaryAlt(req_psid) == ~req_psid.some

MissingPrimary(req_psid) == ~Truthy(req_psid)

\* secure_1psidts or ''
OrEmpty(o) == IF Truthy(o) THEN o.v ELSE <<>>

\* cache_key = f"{secure_1psid}:{secure_1psidts or ''}"
CacheKeyPrimaryOnly(secure_1psid, secure_1psidts) == secure_1psid \o <<":">>

cache_key(secure_1psid, secure_1psidts) ==
    secure_1psid \o <<":">> \o OrEmpty(secure_1psidts)

(***************************************************************************)
(* client_cache is a dict.  A dict keeps its entries in insertion order in *)
(* an array: a new key is appended, an assignment to a stored key replaces *)
(* the value in place, and del leaves a hole (client = NoClient) that an   *)
(* iterator skips.  The array is only rebuilt when it is full, which more  *)
(* than five insertions are needed for.                                    *)
(***************************************************************************)
NoClient == 0

RECURSIVE FindKey(_, _, _)
FindKey(d, k, i) ==
    IF i > Len(d) THEN 0
    ELSE IF d[i].key = k /\ d[i].client # NoClient THEN i
    ELSE FindKey(d, k, i + 1)

\* cache_key in client_cache
InCache(d, k) == FindKey(d, k, 1) # 0

\* client_cache[cache_key]
CacheGet(d, k) == d[FindKey(d, k, 1)].client

\* del client_cache[cache_key]
CacheDel(d, k) ==
    [d EXCEPT ![FindKey(d, k, 1)].client = NoClient]

\* client_cache[cache_key] = client
CacheSet(d, k, c) ==
    IF InCache(d, k) THEN [d EXCEPT ![FindKey(d, k, 1)].client = c]
    ELSE Append(d, [key |-> k, client |-> c])

\* len(client_cache)
CacheUsed(d) == Cardinality({i \in 1..Len(d) : d[i].client # NoClient})

\* the clients stored in the dict
CacheClients(d) == {d[i].client : i \in 1..Len(d)} \ {NoClient}

(***************************************************************************)
(* Texts (error messages, prompts, details) are sequences of non-empty     *)
(* pieces, so that "" is <<>> and an f-string is a concatenation.          *)
(***************************************************************************)
Str(piece) == IF piece = "" THEN <<>> ELSE <<piece>>

\* the cookie headers requests carry
Hdr(name, value) == name \o value

CookieA == Hdr(PsidPrefix, <<"a">>)

CookieAX == CookieA \o <<";", " ">> \o Hdr(PsidtsPrefix, <<"x">>)

CookieB == Hdr(PsidPrefix, <<"b">>)

CookieNone == <<>>

CookieEmptyPsid == PsidPrefix

CookieOnlyTs == Hdr(PsidtsPrefix, <<"x">>)

\* "__Secure-1PSID=a; __Secure-1PSIDTS=": the secondary token is present
\* and empty
CookieAEmptyTs == CookieA \o <<";", " ">> \o PsidtsPrefix

\* tokens that contain the ":" of the cache key
CookieColonPsid == Hdr(PsidPrefix, <<"a", ":", "b">>)

CookieColonPsidts == CookieA \o <<";", " ">> \o Hdr(PsidtsPrefix, <<"b", ":">>)

\* headers of SpecKeys
KeyCookies ==
    {CookieA, CookieAX, CookieAEmptyTs, CookieB, CookieColonPsid, CookieColonPsidts}

\* a segment of a cookie header: optional whitespace, a cookie name, "=",
\* the value, optional whitespace
Segment(lpad, name, value, rpad) ==
    [lpad |-> lpad, name |-> name, value |-> value, rpad |-> rpad]

PsidtsName == PsidName \o <<"T", "S">>

OtherName == <<"N", "I", "D">>

Segments ==
    { Segment(<<>>, PsidName, <<"a">>, <<>>),
      Segment(<<"\n", " ">>, PsidName, <<"b", "=", "c">>, <<" ">>),
      Segment(<<>>, PsidName, <<>>, <<>>),
      Segment(<<" ">>, PsidtsName, <<"x">>, <<>>),
      Segment(<<>>, PsidtsName, <<>>, <<" ">>),
      Segment(<<" ">>, OtherName, <<"7">>, <<>>) }

SegmentText(seg) == seg.lpad \o seg.name \o <<"=">> \o seg.value \o seg.rpad

\* the header made of the segments segs: the segments joined by ";"
RECURSIVE CookieHeader(_)
CookieHeader(segs) ==
    IF segs = <<>> THEN <<>>
    ELSE IF Len(segs) = 1 THEN SegmentText(segs[1])
    ELSE SegmentText(segs[1]) \o <<";">> \o CookieHeader(Tail(segs))

\* the lists of at most MaxSegs segments
SegmentLists == UNION {[1..n -> Segments] : n \in 0..MaxSegs}

\* headers of SpecExtract
ExtractCookies == {CookieHeader(segs) : segs \in SegmentLists}

\* headers of the session-cache specification: two distinct callers
CacheCookies == {CookieA, CookieAX}

\* headers of SpecEndpoints and SpecHandlers
EndpointCookies == {CookieA, CookieB, CookieNone, CookieEmptyPsid, CookieOnlyTs}

\* the routes that take the cookies of the caller
Endpoints ==
    {"generate", "chat", "generate-image", "edit-image",
     "generate-with-files", "download-image", "test-image-gen"}

\* the prompt test_image_generation sends
TestPrompt == "Create a simple drawing of a red apple"

\* request.prompt
Prompt == "a cat"

\* str(e) of the exceptions the upstream client raises
ErrorMessages == {"", "quota exceeded", "timeout"}

\* image URLs of upstream responses, strings as above
UrlEmpty == <<>>

\* "https://example.com/cat.png"
UrlWeb ==
    <<"h", "t", "t", "p", "s", ":", "/", "/", "e", "x", "a", "m", "p", "l", "e", ".",
      "c", "o", "m", "/", "c", "a", "t", ".", "p", "n", "g">>

\* "googleusercontent.com/image_generation_content"
GeneratedPath ==
    <<"g", "o", "o", "g", "l", "e", "u", "s", "e", "r", "c", "o", "n", "t", "e", "n",
      "t", ".", "c", "o", "m", "/", "i", "m", "a", "g", "e", "_", "g", "e", "n", "e",
      "r", "a", "t", "i", "o", "n", "_", "c", "o", "n", "t", "e", "n", "t">>

\* "https://lh3.googleusercontent.com/image_generation_content/1"
UrlGenerated ==
    <<"h", "t", "t", "p", "s", ":", "/", "/", "l", "h", "3", ".">> \o GeneratedPath \o <<"/", "1">>

\* p in s
Contains(s, p) ==
    \E i \in 0..(Len(s) - Len(p)) : SubSeq(s, i + 1, i + Len(p)) = p

\* 'googleusercontent.com/image_generation_content' in img.url
HasGeneratedPath(url) == Contains(url, GeneratedPath)

\* an upstream image object: WebImage has the attribute proxy
Img(url, proxy) == [url |-> url, proxy |-> proxy]

\* an upstream ModelOutput
Output(text, images) == [text |-> text, images |-> images]

\* upstream results of the image-generation specification
ImageOutputs ==
    { Output("no image", <<>>),
      Output("an image without url", <<Img(UrlEmpty, FALSE)>>),
      Output("a generated image", <<Img(UrlGenerated, FALSE)>>),
      Output("a web image", <<Img(UrlEmpty, FALSE), Img(UrlWeb, TRUE)>>) }

\* values of the chat_id, reply_id and reply_candidate_id of a ChatRequest:
\* not given (None), given as "", given as an identifier
ChatIds == {None, Some(<<>>), Some(<<"c", "1">>)}

ReplyIds == {None, Some(<<>>), Some(<<"r", "1">>)}

ReplyCandidateIds == {None, Some(<<>>), Some(<<"r", "c", "1">>)}

\* response.metadata and response.rcid of the upstream chat responses
UpstreamMetadata == {<<>>, << <<"c", "1">> >>, << <<"c", "1">>, <<"r", "1">> >>}

UpstreamRcids == {<<>>, <<"r", "c", "1">>}

\* upstream results of the other specifications
PlainOutputs == {Output("t1", <<>>), Output("t2", <<Img(UrlGenerated, FALSE)>>)}

(***************************************************************************)
(* The objects of the state.                                               *)
(***************************************************************************)
\* GeminiClient(secure_1psid=..., secure_1psidts=...): not initialised yet
NewClient == [state |-> "new", running |-> FALSE, closes |-> 0]

NoBody == [text |-> "", images |-> <<>>]

\* a request as the framework hands it to its handler
NewRequest(ep, cookie_header, nfiles) ==
    [ep |-> ep, cookie |-> cookie_header, nfiles |-> nfiles, pc |-> "start",
     req_psid |-> None, req_psidts |-> None,
     key |-> <<>>, client |-> NoClient, acq |-> "none", before |-> {},
     calls |-> <<>>, tried |-> 0, last_error |-> None, outcomes |-> <<>>,
     temp_files |-> <<>>, unlink_failed |-> {},
     chat_id |-> None, reply_id |-> None, reply_candidate_id |-> None,
     metadata |-> None, echo_of |-> 0,
     chat_response |-> [chat_id |-> <<>>, reply_id |-> <<>>,
                        reply_candidate_id |-> <<>>],
     status |-> 0, detail |-> <<>>, body |-> NoBody]

\* the requests whose get_client_for_cookies call has returned or raised
AcquireEnded(reqs) ==
    {q \in 1..Len(reqs) : reqs[q].acq \in {"hit", "created", "failed"}}

\* raise HTTPException(status_code=..., detail=...)
Respond(rq, status, detail) ==
    [rq EXCEPT !.pc = "done", !.status = status, !.detail = detail]

\* return GenerateResponse(...) / ChatResponse(...) / Response(...)
Return(rq, body) ==
    [rq EXCEPT !.pc = "done", !.status = 200, !.body = body]

(***************************************************************************)
(* get_client_for_cookies: the part before its await.                      *)
(***************************************************************************)
\* if client._running: return client
CachedLiveAlways(cl, c) == TRUE

CachedLive(cl, c) == cl[c].running

\* cache_key in client_cache and client._running: the cached client is returned
AcquireHit(d, cl, k) == InCache(d, k) /\ CachedLive(cl, CacheGet(d, k))

\* else: del client_cache[cache_key] ("Remove dead client from cache")
CachePurgedOnLookup(d, cl, k) ==
    [i \in 1..Len(d) |->
        IF d[i].client # NoClient /\ ~CachedLive(cl, d[i].client)
        THEN [d[i] EXCEPT !.client = NoClient] ELSE d[i]]

CacheAfterLookup(d, cl, k) ==
    IF InCache(d, k) /\ ~CachedLive(cl, CacheGet(d, k)) THEN CacheDel(d, k) ELSE d

\* the clients after that branch: the dead client is dropped from the dict
\* and nothing is called on it
ClientsClosedOnEvict(d, cl, k) ==
    IF InCache(d, k) /\ ~CachedLive(cl, CacheGet(d, k))
    THEN [cl EXCEPT ![CacheGet(d, k)].closes = @ + 1]
    ELSE cl

ClientsAfterLookup(d, cl, k) == cl

\* client_cache[cache_key] = client, after init has returned
StoreClient(d, k, c) == CacheSet(d, k, c)

\* except Exception as e: raise HTTPException(status_code=401, ...): what the
\* cache is after a failed init
StoreFailedToo(d, k, c) == CacheSet(d, k, c)

StoreOnFailure(d, k, c) == d

(***************************************************************************)
(* The handlers, from the return of get_client_for_cookies to their first  *)
(* await.                                                                  *)
(***************************************************************************)
Templates ==
    <<"Create an image of ", "Generate a picture showing ", "Draw ",
      "Make an image: ">>

\* prompts_to_try
prompts_to_try(prompt) == [i \in 1..Len(Templates) |-> <<Templates[i]>> \o Str(prompt)]

\* one upstream generate_content / send_message call
Call(prompt, files) == [prompt |-> prompt, files |-> files]

\* the temporary file request r creates for its n-th upload, and the
\* temporary directory of its download
TempFile(r, n) == <<r, n>>

TempDir(r) == <<r, 0>>

\* if request.chat_id: metadata.append(request.chat_id)
AppendAlways(metadata, field) == Append(metadata, field.v)

AppendIfGiven(metadata, field) ==
    IF Truthy(field) THEN Append(metadata, field.v) ELSE metadata

\* the list chat_with_history builds from the three fields of its request
chat_metadata(chat_id, reply_id, reply_candidate_id) ==
    AppendIfGiven(AppendIfGiven(AppendIfGiven(<<>>, chat_id), reply_id),
                  reply_candidate_id)

\* start_chat(metadata=metadata if metadata else None, ...)
StartChatMetadata(metadata) == IF metadata # <<>> THEN Some(metadata) ELSE None

\* the handler of rq runs up to its first await after the client is acquired
BodyStart(rq, r) ==
    CASE rq.ep = "generate" ->
           [rq EXCEPT !.pc = "call", !.calls = <<Call(Str(Prompt), <<>>)>>]
      [] rq.ep = "chat" ->
           [rq EXCEPT !.pc = "call", !.calls = <<Call(Str(Prompt), <<>>)>>,
                      !.metadata = StartChatMetadata(
                          chat_metadata(rq.chat_id, rq.reply_id, rq.reply_candidate_id))]
      [] rq.ep = "generate-image" ->
           [rq EXCEPT !.pc = "call", !.tried = 1,
                      !.calls = <<Call(prompts_to_try(Prompt)[1], <<>>)>>]
      [] rq.ep \in {"edit-image", "generate-with-files"} ->
           [rq EXCEPT !.pc = "read"]
      [] rq.ep = "test-image-gen" ->
           [rq EXCEPT !.pc = "call", !.calls = <<Call(Str(TestPrompt), <<>>)>>]
      [] OTHER ->
           [rq EXCEPT !.pc = "save"]

\* the files that exist once the handler of rq has reached that await
FsBodyStart(rq, r, files) ==
    CASE rq.ep \in {"edit-image", "generate-with-files"} ->
           files \cup {TempFile(r, 1)}
      [] rq.ep = "download-image" -> files \cup {TempDir(r)}
      [] OTHER -> files

\* get_client_for_cookies is called inside the handler's try ... except
\* Exception only by download_image
AcquireOutsideTry(ep) == FALSE

AcquireInsideTry(ep) == ep = "download-image"

InitFailedDetail(msg) ==
    <<"Failed to initialize Gemini client with provided cookies: ">> \o Str(msg)

\* the response to a request whose client.init raised
InitFailedResponse(rq, msg) ==
    IF AcquireInsideTry(rq.ep)
    THEN Respond(rq, 500, <<"Error downloading image: ", "401: ">>
                          \o InitFailedDetail(msg))
    ELSE Respond(rq, 401, InitFailedDetail(msg))

\* detail of the 400 of a request without primary token: download_image and
\* test_image_generation name the cookie, the other handlers add a hint
MissingCookieDetail(ep) ==
    IF ep \in {"download-image", "test-image-gen"}
    THEN <<"Missing required cookie: __Secure-1PSID">>
    ELSE <<"Missing required cookie: __Secure-1PSID. Please provide Gemini cookies in the Cookie header.">>

\* the record of the shutdown hook after a get_client_for_cookies call has
\* begun: a call that begins while the hook awaits a close is noted in its
\* field quiet, one that begins after the hook has ended in its field late
AcquireNoted(sh) ==
    CASE sh.pc = "idle" -> sh
      [] sh.pc = "closing" -> [sh EXCEPT !.quiet = FALSE]
      [] OTHER -> [sh EXCEPT !.late = TRUE]

(***************************************************************************)
(* A request arrives: the handler runs up to its first await.  Nothing in  *)
(* the handlers looks at the shutdown hook, so a request is served the     *)
(* same way before, while and after the hook runs.                         *)
(***************************************************************************)
HandleRequest(request) ==
    /\ LET r == Len(requests) + 1
           ck == extract_cookies_from_request(request.cookie)
           rq0 == [request EXCEPT !.before = AcquireEnded(requests),
                                  !.req_psid = ck[1], !.req_psidts = ck[2]]
       IN  IF MissingPrimary(ck[1])
           THEN /\ requests' = Append(requests, Respond(rq0, 400,
                                            MissingCookieDetail(rq0.ep)))
                /\ UNCHANGED <<client_cache, clients, shutdown, fs>>
           ELSE LET k == cache_key(ck[1].v, ck[2])
                    rq1 == [rq0 EXCEPT !.key = k]
                IN  IF AcquireHit(client_cache, clients, k)
                    THEN LET rq2 == [rq1 EXCEPT !.client = CacheGet(client_cache, k),
                                                !.acq = "hit"]
                         IN  /\ requests' = Append(requests, BodyStart(rq2, r))
                             /\ fs' = FsBodyStart(rq2, r, fs)
                             /\ shutdown' = AcquireNoted(shutdown)
                             /\ UNCHANGED <<client_cache, clients>>
                    ELSE /\ client_cache' = CacheAfterLookup(client_cache, clients, k)
                         /\ clients' = Append(ClientsAfterLookup(client_cache, clients, k),
                                               NewClient)
                         /\ requests' = Append(requests,
                                [rq1 EXCEPT !.client = Len(clients) + 1,
                                            !.acq = "pending", !.pc = "init"])
                         /\ shutdown' = AcquireNoted(shutdown)
                         /\ UNCHANGED fs

ReceiveRequest(ep, cookie_header, nfiles) ==
    HandleRequest(NewRequest(ep, cookie_header, nfiles))

\* a /chat request with the continuation fields of its ChatRequest body
ReceiveChat(cookie_header, chat_id, reply_id, reply_candidate_id) ==
    HandleRequest([NewRequest("chat", cookie_header, 1) EXCEPT
                      !.chat_id = chat_id, !.reply_id = reply_id,
                      !.reply_candidate_id = reply_candidate_id])

\* the caller of the answered chat request r sends the next /chat request of
\* the conversation, with the three identifiers of r's ChatResponse as its
\* continuation fields
EchoChat(r) ==
    /\ requests[r].ep = "chat"
    /\ requests[r].pc = "done"
    /\ requests[r].status = 200
    /\ HandleRequest([NewRequest("chat", requests[r].cookie, 1) EXCEPT
                         !.chat_id = Some(requests[r].chat_response.chat_id),
                         !.reply_id = Some(requests[r].chat_response.reply_id),
                         !.reply_candidate_id =
                             Some(requests[r].chat_response.reply_candidate_id),
                         !.echo_of = r])

\* await client.init(...) returns: the client is stored and returned
InitReturns(r) ==
    /\ requests[r].pc = "init"
    /\ LET rq == [requests[r] EXCEPT !.acq = "created"]
           c == rq.client
       IN  /\ clients' = [clients EXCEPT ![c].state = "ok", ![c].running = TRUE]
           /\ client_cache' = StoreClient(client_cache, rq.key, c)
           /\ requests' = [requests EXCEPT ![r] = BodyStart(rq, r)]
           /\ fs' = FsBodyStart(rq, r, fs)
           /\ UNCHANGED shutdown

\* await client.init(...) raises
InitRaises(r, msg) ==
    /\ requests[r].pc = "init"
    /\ LET rq == [requests[r] EXCEPT !.acq = "failed"]
           c == rq.client
       IN  /\ clients' = [clients EXCEPT ![c].state = "failed"]
           /\ client_cache' = StoreOnFailure(client_cache, rq.key, c)
           /\ requests' = [requests EXCEPT ![r] = InitFailedResponse(rq, msg)]
           /\ UNCHANGED <<shutdown, fs>>

(***************************************************************************)
(* generate_content and chat_with_history after their upstream call.       *)
(***************************************************************************)
\* "type": "web" if hasattr(img, "proxy") else "generated"
ShapeImages(images) ==
    [i \in 1..Len(images) |->
        [url |-> images[i].url,
         type |-> IF images[i].proxy THEN "web" ELSE "generated"]]

FailurePrefix(ep) ==
    CASE ep = "generate" -> "Failed to generate content: "
      [] ep = "chat" -> "Failed to chat: "
      [] ep = "generate-image" -> "Failed to generate image: "
      [] ep = "edit-image" -> "Failed to edit image: "
      [] ep = "generate-with-files" -> "Failed to generate content with files: "
      [] OTHER -> "Error downloading image: "

\* except Exception as e: raise HTTPException(status_code=500, ...)
Fail500(rq, msg) == Respond(rq, 500, <<FailurePrefix(rq.ep)>> \o msg)

\* what one upstream call did
Returned(out) == [kind |-> "returned", out |-> out, msg |-> ""]

Raised(msg) == [kind |-> "raised", out |-> Output("", <<>>), msg |-> msg]

\* the handler's except Exception after its upstream call raised: the
\* call is not made again
UpstreamRetried(rq, msg) ==
    IF Len(rq.calls) < 2
    THEN [rq EXCEPT !.calls = Append(@, rq.calls[1])]
    ELSE Fail500(rq, msg)

UpstreamFailed(rq, msg) == Fail500(rq, msg)

GenerateReturns(r, out) ==
    /\ requests[r].pc = "call"
    /\ requests[r].ep \in {"generate", "chat"}
    /\ requests' = [requests EXCEPT ![r] =
          Return([@ EXCEPT !.outcomes = Append(@, Returned(out))],
                 [text |-> out.text, images |-> ShapeImages(out.images)])]
    /\ UNCHANGED <<client_cache, clients, shutdown, fs>>

\* chat_id=response.metadata[0] if len(response.metadata) > 0 else "",
\* reply_id=response.metadata[1] if len(response.metadata) > 1 else "",
\* reply_candidate_id=response.rcid
ChatResponseIds(metadata, rcid) ==
    [chat_id |-> IF Len(metadata) > 0 THEN metadata[1] ELSE <<>>,
     reply_id |-> IF Len(metadata) > 1 THEN metadata[2] ELSE <<>>,
     reply_candidate_id |-> rcid]

\* chat.send_message returns a response with the conversation identifiers
\* metadata and rcid: the ChatResponse carries them
ChatReturns(r, out, metadata, rcid) ==
    /\ requests[r].pc = "call"
    /\ requests[r].ep = "chat"
    /\ requests' = [requests EXCEPT ![r] =
          Return([@ EXCEPT !.outcomes = Append(@, Returned(out)),
                           !.chat_response = ChatResponseIds(metadata, rcid)],
                 [text |-> out.text, images |-> ShapeImages(out.images)])]
    /\ UNCHANGED <<client_cache, clients, shutdown, fs>>

GenerateRaises(r, msg) ==
    /\ requests[r].pc = "call"
    /\ requests[r].ep \in {"generate", "chat"}
    /\ requests' = [requests EXCEPT ![r] =
          UpstreamFailed([@ EXCEPT !.outcomes = Append(@, Raised(msg))], Str(msg))]
    /\ UNCHANGED <<client_cache, clients, shutdown, fs>>

(***************************************************************************)
(* test_image_generation after its upstream call: it answers 200 either    *)
(* way, with the result or with the error.  The title of an image and the  *)
(* thoughts of the response are copied as the upstream gave them and are   *)
(* left out; the exceptions of the model are of the class Exception.       *)
(***************************************************************************)
TestSuccess(out) ==
    [success |-> TRUE, text |-> out.text, images_count |-> Len(out.images),
     images |-> [i \in 1..Len(out.images) |-> [url |-> out.images[i].url]]]

TestFailure(msg) ==
    [success |-> FALSE, error |-> Str(msg), error_type |-> "Exception"]

TestCallReturns(r, out) ==
    /\ requests[r].pc = "call"
    /\ requests[r].ep = "test-image-gen"
    /\ requests' = [requests EXCEPT ![r] =
          Return([@ EXCEPT !.outcomes = Append(@, Returned(out))], TestSuccess(out))]
    /\ UNCHANGED <<client_cache, clients, shutdown, fs>>

TestCallRaises(r, msg) ==
    /\ requests[r].pc = "call"
    /\ requests[r].ep = "test-image-gen"
    /\ requests' = [requests EXCEPT ![r] =
          Return([@ EXCEPT !.outcomes = Append(@, Raised(msg))], TestFailure(msg))]
    /\ UNCHANGED <<client_cache, clients, shutdown, fs>>

(***************************************************************************)
(* generate_image: the loop over prompts_to_try.                           *)
(***************************************************************************)
\* if hasattr(img, 'url') and img.url
UsableImageAny(img) == TRUE

UsableImage(img) == img.url # UrlEmpty

RECURSIVE CollectImages(_)
CollectImages(images) ==
    IF images = <<>> THEN <<>>
    ELSE (IF UsableImage(Head(images))
          THEN <<[url |-> Head(images).url,
                  type |-> IF HasGeneratedPath(Head(images).url)
                           THEN "generated" ELSE "web"]>>
          ELSE <<>>) \o CollectImages(Tail(images))

\* last_error = f"No images generated with prompt: {prompt_variation}"
LastErrorKeepRaised(prev, prompt_variation) ==
    IF prev.some THEN prev
    ELSE Some(<<"No images generated with prompt: ">> \o prompt_variation)

LastErrorAfterNoImage(prev, prompt_variation) ==
    Some(<<"No images generated with prompt: ">> \o prompt_variation)

\* last_error = str(e)
LastErrorAfterRaise(prev, msg) == Some(Str(msg))

GenericImageError == <<"Failed to generate image with all prompt variations">>

\* raise Exception(last_error or "Failed to generate image with all prompt
\* variations"), caught by the outer except
ExhaustedDetail(last_error) ==
    IF Truthy(last_error) THEN last_error.v ELSE GenericImageError

\* the loop goes on after a call that gave no image: the next prompt, or the
\* end of the list
ImageNext(rq, last_error, outcome) ==
    LET rq1 == [rq EXCEPT !.last_error = last_error,
                          !.outcomes = Append(@, outcome)]
    IN  IF rq.tried < Len(Templates)
        THEN [rq1 EXCEPT !.tried = @ + 1,
                         !.calls = Append(@, Call(prompts_to_try(Prompt)[rq.tried + 1], <<>>))]
        ELSE Fail500(rq1, ExhaustedDetail(last_error))

ImageCallReturns(r, out) ==
    /\ requests[r].pc = "call"
    /\ requests[r].ep = "generate-image"
    /\ LET rq == requests[r]
           images == CollectImages(out.images)
       IN  requests' = [requests EXCEPT ![r] =
             IF images # <<>>
             THEN Return([rq EXCEPT !.outcomes = Append(@, Returned(out))],
                         [text |-> out.text, images |-> images])
             ELSE ImageNext(rq,
                    LastErrorAfterNoImage(rq.last_error, rq.calls[Len(rq.calls)].prompt),
                    Returned(out))]
    /\ UNCHANGED <<client_cache, clients, shutdown, fs>>

ImageCallRaises(r, msg) ==
    /\ requests[r].pc = "call"
    /\ requests[r].ep = "generate-image"
    /\ requests' = [requests EXCEPT ![r] =
          ImageNext(@, LastErrorAfterRaise(@.last_error, msg),
                    Raised(msg))]
    /\ UNCHANGED <<client_cache, clients, shutdown, fs>>

(***************************************************************************)
(* edit_image and generate_with_files: staging the uploads, the upstream   *)
(* call, and the release of the temporary files.  os.unlink raises for the *)
(* files in `failing`.                                                     *)
(***************************************************************************)
UnlinkError == "unlink failed"

Rng(seq) == {seq[i] : i \in 1..Len(seq)}

\* for temp_file_path in temp_files: try: os.unlink(...) except: pass
FsAfterCleanup(files, temp_files, failing) == files \ (Rng(temp_files) \ failing)

\* await file.read() returns and the content is written
StageReturns(r) ==
    /\ requests[r].pc = "read"
    /\ LET rq == requests[r]
           n == Len(rq.temp_files) + 1
           staged == Append(rq.temp_files, TempFile(r, n))
       IN  IF rq.ep = "edit-image"
           THEN /\ requests' = [requests EXCEPT ![r] =
                      [rq EXCEPT !.pc = "call", !.temp_files = staged,
                                 !.calls = <<Call(<<"Edit this image: ">> \o Str(Prompt), staged)>>]]
                /\ fs' = fs
           ELSE IF n < rq.nfiles
           THEN /\ requests' = [requests EXCEPT ![r] = [rq EXCEPT !.temp_files = staged]]
                /\ fs' = fs \cup {TempFile(r, n + 1)}
           ELSE /\ requests' = [requests EXCEPT ![r] =
                      [rq EXCEPT !.pc = "call", !.temp_files = staged,
                                 !.calls = <<Call(Str(Prompt), staged)>>]]
                /\ fs' = fs
    /\ UNCHANGED <<client_cache, clients, shutdown>>

\* await file.read() or the write raises
StageRaises(r, msg, failing) ==
    /\ requests[r].pc = "read"
    /\ failing \subseteq Rng(requests[r].temp_files)
    /\ requests' = [requests EXCEPT ![r] =
          Fail500([@ EXCEPT !.unlink_failed = failing], Str(msg))]
    /\ fs' = IF requests[r].ep = "edit-image" THEN fs
             ELSE FsAfterCleanup(fs, requests[r].temp_files, failing)
    /\ UNCHANGED <<client_cache, clients, shutdown>>

\* the upstream call with files returns
FileCallReturns(r, out, failing) ==
    /\ requests[r].pc = "call"
    /\ requests[r].ep \in {"edit-image", "generate-with-files"}
    /\ failing \subseteq Rng(requests[r].temp_files)
    /\ LET rq == [requests[r] EXCEPT !.outcomes = Append(@, Returned(out)),
                                     !.unlink_failed = failing]
           ok == Return(rq, [text |-> out.text, images |-> ShapeImages(out.images)])
       IN  IF rq.ep = "edit-image"
           THEN IF failing = {}
                THEN requests' = [requests EXCEPT ![r] = ok] /\ fs' = fs \ Rng(rq.temp_files)
                ELSE requests' = [requests EXCEPT ![r] = Fail500(rq, Str(UnlinkError))]
                     /\ fs' = fs
           ELSE requests' = [requests EXCEPT ![r] = ok]
                /\ fs' = FsAfterCleanup(fs, rq.temp_files, failing)
    /\ UNCHANGED <<client_cache, clients, shutdown>>

\* the upstream call with files raises
FileCallRaises(r, msg, failing) ==
    /\ requests[r].pc = "call"
    /\ requests[r].ep \in {"edit-image", "generate-with-files"}
    /\ failing \subseteq Rng(requests[r].temp_files)
    /\ LET rq == [requests[r] EXCEPT !.outcomes = Append(@, Raised(msg)),
                                     !.unlink_failed = failing]
       IN  IF rq.ep = "edit-image"
           THEN IF failing = {}
                THEN requests' = [requests EXCEPT ![r] = UpstreamFailed(rq, Str(msg))]
                     /\ fs' = fs \ Rng(rq.temp_files)
                ELSE requests' = [requests EXCEPT ![r] = Fail500(rq, Str(UnlinkError))]
                     /\ fs' = fs
           ELSE requests' = [requests EXCEPT ![r] = UpstreamFailed(rq, Str(msg))]
                /\ fs' = FsAfterCleanup(fs, rq.temp_files, failing)
    /\ UNCHANGED <<client_cache, clients, shutdown>>

(***************************************************************************)
(* download_image after generated_image.save.                              *)
(***************************************************************************)
\* saved: "file" (a path that exists), "missing" (a path that does not),
\* "none" (no path)
Saved(saved) == [kind |-> saved, out |-> Output("", <<>>), msg |-> ""]

SaveReturns(r, saved) ==
    /\ requests[r].pc = "save"
    /\ LET rq == [requests[r] EXCEPT !.outcomes = Append(@, Saved(saved))]
       IN  requests' = [requests EXCEPT ![r] =
             IF saved = "file"
             THEN Return(rq, [text |-> "image/png", images |-> <<>>])
             ELSE Fail500(rq, <<"500: ", "Failed to save image">>)]
    /\ fs' = fs \ {TempDir(r)}
    /\ UNCHANGED <<client_cache, clients, shutdown>>

SaveRaises(r, msg) ==
    /\ requests[r].pc = "save"
    /\ requests' = [requests EXCEPT ![r] =
          Fail500([@ EXCEPT !.outcomes = Append(@, Raised(msg))], Str(msg))]
    /\ fs' = fs \ {TempDir(r)}
    /\ UNCHANGED <<client_cache, clients, shutdown>>

(***************************************************************************)
(* The upstream session loses its liveness out of band.                    *)
(***************************************************************************)
Die(c) ==
    /\ clients[c].state = "ok"
    /\ clients[c].running
    /\ clients' = [clients EXCEPT ![c].running = FALSE]
    /\ UNCHANGED <<client_cache, requests, shutdown, fs>>

(***************************************************************************)
(* shutdown_event: for client in client_cache.values(): if                 *)
(* client._running: await client.close(); then client_cache.clear().       *)
(* The dict iterator remembers the dict's size (di_used), its place in the *)
(* entry array (di_pos) and how many entries are left (len); its next      *)
(* raises RuntimeError when the size differs, or when it finds an entry    *)
(* with none left.                                                         *)
(***************************************************************************)
ShutdownIdle ==
    [pc |-> "idle", di_pos |-> 1, di_used |-> 0, len |-> 0, closing |-> NoClient,
     quiet |-> TRUE, late |-> FALSE, stored |-> {}, seenLive |-> {},
     seenDead |-> {}]

RECURSIVE NextEntry(_, _)
NextEntry(d, i) ==
    IF i > Len(d) THEN 0
    ELSE IF d[i].client # NoClient THEN i
    ELSE NextEntry(d, i + 1)

\* if client._running: await client.close()
ShouldCloseAny(cl, c) == TRUE

ShouldClose(cl, c) == cl[c].running

\* the loop runs until it awaits a close ("closing"), ends ("done") or
\* raises ("failed")
RECURSIVE RunShutdown(_, _, _)
RunShutdown(d, cl, sh) ==
    IF sh.di_used # CacheUsed(d) THEN [sh EXCEPT !.pc = "failed", !.closing = NoClient]
    ELSE LET j == NextEntry(d, sh.di_pos) IN
         IF j = 0 THEN [sh EXCEPT !.pc = "done", !.closing = NoClient]
         ELSE IF sh.len = 0 THEN [sh EXCEPT !.pc = "failed", !.closing = NoClient]
         ELSE LET c == d[j].client
                  sh1 == [sh EXCEPT !.di_pos = j + 1, !.len = @ - 1,
                                    !.seenLive = IF cl[c].running THEN @ \cup {c} ELSE @,
                                    !.seenDead = IF cl[c].running THEN @ ELSE @ \cup {c}]
              IN  IF ShouldClose(cl, c)
                  THEN [sh1 EXCEPT !.pc = "closing", !.closing = c]
                  ELSE RunShutdown(d, cl, [sh1 EXCEPT !.closing = NoClient])

\* GeminiClient.close is invoked: the session is closed and no longer live
CloseInvoked(cl, c) ==
    [cl EXCEPT ![c].closes = @ + 1, ![c].running = FALSE]

\* client_cache.clear()
CacheClear(d) == <<>>

\* the state after the loop has run to sh
ShutdownRunsTo(sh) ==
    /\ shutdown' = sh
    /\ clients' = IF sh.pc = "closing" THEN CloseInvoked(clients, sh.closing) ELSE clients
    /\ client_cache' = IF sh.pc = "done" THEN CacheClear(client_cache) ELSE client_cache
    /\ UNCHANGED <<requests, fs>>

\* the shutdown event fires
ShutdownBegin ==
    /\ shutdown.pc = "idle"
    /\ ShutdownRunsTo(RunShutdown(client_cache, clients,
          [ShutdownIdle EXCEPT !.di_used = CacheUsed(client_cache),
                               !.len = CacheUsed(client_cache),
                               !.stored = CacheClients(client_cache),
                               !.quiet = \A r \in 1..Len(requests) :
                                            requests[r].pc # "init"]))

\* await client.close() returns
CloseReturns ==
    /\ shutdown.pc = "closing"
    /\ ShutdownRunsTo(RunShutdown(client_cache, clients, shutdown))

(***************************************************************************)
(* The specifications.                                                     *)
(***************************************************************************)
Init ==
    /\ client_cache = <<>>
    /\ clients = <<>>
    /\ requests = <<>>
    /\ shutdown = ShutdownIdle
    /\ fs = {}

Reqs == 1..Len(requests)

\* Spec: the session cache under concurrent /generate requests of two
\* callers, out-of-band session deaths and the shutdown event
Next ==
    \/ \E h \in CacheCookies :
          Len(requests) < MaxReq /\ ReceiveRequest("generate", h, 1)
    \/ \E r \in Reqs : InitReturns(r)
    \/ \E r \in Reqs : InitRaises(r, "quota exceeded")
    \/ \E r \in Reqs : GenerateReturns(r, Output("t1", <<>>))
    \/ \E c \in 1..Len(clients) : Die(c)
    \/ ShutdownBegin
    \/ CloseReturns

Spec == Init /\ [][Next]_vars

\* SpecRace: a burst of /generate requests of one caller, no death and no
\* shutdown
NextRace ==
    \/ Len(requests) < MaxRaceReq /\ ReceiveRequest("generate", CookieA, 1)
    \/ \E r \in Reqs : InitReturns(r)
    \/ \E r \in Reqs : InitRaises(r, "quota exceeded")
    \/ \E r \in Reqs : GenerateReturns(r, Output("t1", <<>>))
    \/ \E r \in Reqs : GenerateRaises(r, "timeout")

SpecRace == Init /\ [][NextRace]_vars

\* SpecSequential: the /generate requests of one caller, before, while and
\* after the shutdown event
NextSequential ==
    \/ Len(requests) < MaxSeqReq /\ ReceiveRequest("generate", CookieA, 1)
    \/ \E r \in Reqs : InitReturns(r)
    \/ \E r \in Reqs : GenerateReturns(r, Output("t1", <<>>))
    \/ \E c \in 1..Len(clients) : Die(c)
    \/ ShutdownBegin
    \/ CloseReturns

SpecSequential == Init /\ [][NextSequential]_vars

\* SpecEndpoints: the identity check and the acquisition of every endpoint,
\* for every kind of cookie header
NextEndpoints ==
    \/ \E ep \in Endpoints, h \in EndpointCookies :
          Len(requests) < MaxEndpointReq /\ ReceiveRequest(ep, h, 1)
    \/ \E r \in Reqs : InitReturns(r)
    \/ \E r \in Reqs : InitRaises(r, "quota exceeded")
    \/ \E c \in 1..Len(clients) : Die(c)

SpecEndpoints == Init /\ [][NextEndpoints]_vars

\* SpecImage: generate_image against every upstream result
NextImage ==
    \/ Len(requests) < MaxImageReq /\ ReceiveRequest("generate-image", CookieA, 1)
    \/ \E r \in Reqs : InitReturns(r)
    \/ \E r \in Reqs : InitRaises(r, "quota exceeded")
    \/ \E r \in Reqs, out \in ImageOutputs : ImageCallReturns(r, out)
    \/ \E r \in Reqs, msg \in ErrorMessages : ImageCallRaises(r, msg)

SpecImage == Init /\ [][NextImage]_vars

\* SpecHandlers: every handler from its request to its response
NextHandlers ==
    \/ \E ep \in Endpoints, h \in EndpointCookies, n \in 1..MaxFiles :
          /\ Len(requests) < MaxHandlerReq
          /\ (ep = "generate-with-files" \/ n = 1)
          /\ ReceiveRequest(ep, h, n)
    \/ \E r \in Reqs : InitReturns(r)
    \/ \E r \in Reqs : InitRaises(r, "quota exceeded")
    \/ \E r \in Reqs, out \in PlainOutputs : GenerateReturns(r, out)
    \/ \E r \in Reqs : GenerateRaises(r, "timeout")
    \/ \E r \in Reqs, out \in PlainOutputs : ImageCallReturns(r, out)
    \/ \E r \in Reqs : ImageCallRaises(r, "timeout")
    \/ \E r \in Reqs : StageReturns(r)
    \/ \E r \in Reqs : \E f \in SUBSET Rng(requests[r].temp_files) :
          StageRaises(r, "read failed", f)
    \/ \E r \in Reqs, out \in PlainOutputs : \E f \in SUBSET Rng(requests[r].temp_files) :
          FileCallReturns(r, out, f)
    \/ \E r \in Reqs : \E f \in SUBSET Rng(requests[r].temp_files) :
          FileCallRaises(r, "timeout", f)
    \/ \E r \in Reqs, saved \in {"file", "missing", "none"} : SaveReturns(r, saved)
    \/ \E r \in Reqs : SaveRaises(r, "timeout")
    \/ \E r \in Reqs, out \in PlainOutputs : TestCallReturns(r, out)
    \/ \E r \in Reqs : TestCallRaises(r, "timeout")
    \/ \E c \in 1..Len(clients) : Die(c)

SpecHandlers == Init /\ [][NextHandlers]_vars

\* SpecKeys: /generate requests of callers whose token pairs differ
NextKeys ==
    \/ \E h \in KeyCookies :
          Len(requests) < MaxKeyReq /\ ReceiveRequest("generate", h, 1)
    \/ \E r \in Reqs : InitReturns(r)
    \/ \E r \in Reqs : InitRaises(r, "quota exceeded")
    \/ \E r \in Reqs : GenerateReturns(r, Output("t1", <<>>))
    \/ \E c \in 1..Len(clients) : Die(c)

SpecKeys == Init /\ [][NextKeys]_vars

\* SpecExtract: extract_cookies_from_request, a function of the header
\* alone, on the header of one request, for every header made of at most
\* MaxSegs segments
NextExtract ==
    \/ \E h \in ExtractCookies :
          requests = <<>> /\ ReceiveRequest("generate", h, 1)
    \/ \E r \in Reqs : InitReturns(r)
    \/ \E r \in Reqs : InitRaises(r, "quota exceeded")
    \/ \E r \in Reqs : GenerateReturns(r, Output("t1", <<>>))
    \/ \E r \in Reqs : GenerateRaises(r, "timeout")

SpecExtract == Init /\ [][NextExtract]_vars

\* headers of SpecFrame: two callers
FrameCookies == {CookieA, CookieB}

\* SpecFrame: the requests of two callers on every endpoint, each handler
\* from its request to its response, and out-of-band session deaths
NextFrame ==
    \/ \E ep \in Endpoints, h \in FrameCookies :
          Len(requests) < MaxFrameReq /\ ReceiveRequest(ep, h, 1)
    \/ \E r \in Reqs : InitReturns(r)
    \/ \E r \in Reqs : InitRaises(r, "quota exceeded")
    \/ \E r \in Reqs : GenerateReturns(r, Output("t1", <<>>))
    \/ \E r \in Reqs : GenerateRaises(r, "timeout")
    \/ \E r \in Reqs : ImageCallReturns(r, Output("t2", <<Img(UrlGenerated, FALSE)>>))
    \/ \E r \in Reqs : ImageCallRaises(r, "timeout")
    \/ \E r \in Reqs : StageReturns(r)
    \/ \E r \in Reqs : StageRaises(r, "read failed", {})
    \/ \E r \in Reqs : FileCallReturns(r, Output("t1", <<>>), {})
    \/ \E r \in Reqs : FileCallRaises(r, "timeout", {})
    \/ \E r \in Reqs : SaveReturns(r, "file")
    \/ \E r \in Reqs : SaveRaises(r, "timeout")
    \/ \E r \in Reqs : TestCallReturns(r, Output("t1", <<>>))
    \/ \E r \in Reqs : TestCallRaises(r, "timeout")
    \/ \E c \in 1..Len(clients) : Die(c)

SpecFrame == Init /\ [][NextFrame]_vars

\* SpecRoundTrip: a conversation over /chat, each request continuing from
\* the response to the one before
NextRoundTrip ==
    \/ requests = <<>> /\ ReceiveChat(CookieA, None, None, None)
    \/ \E r \in Reqs : Len(requests) < MaxRoundTripReq /\ EchoChat(r)
    \/ \E r \in Reqs : InitReturns(r)
    \/ \E r \in Reqs : InitRaises(r, "quota exceeded")
    \/ \E r \in Reqs, m \in UpstreamMetadata, rcid \in UpstreamRcids :
          ChatReturns(r, Output("t1", <<>>), m, rcid)
    \/ \E r \in Reqs : GenerateRaises(r, "timeout")
    \/ \E c \in 1..Len(clients) : Die(c)

SpecRoundTrip == Init /\ [][NextRoundTrip]_vars

\* SpecChat: chat_with_history for every combination of continuation fields
NextChat ==
    \/ \E c \in ChatIds, rp \in ReplyIds, rc \in ReplyCandidateIds :
          Len(requests) < MaxChatReq /\ ReceiveChat(CookieA, c, rp, rc)
    \/ \E r \in Reqs : InitReturns(r)
    \/ \E r \in Reqs : InitRaises(r, "quota exceeded")
    \/ \E r \in Reqs, out \in PlainOutputs : GenerateReturns(r, out)
    \/ \E r \in Reqs : GenerateRaises(r, "timeout")

SpecChat == Init /\ [][NextChat]_vars

(***************************************************************************)
(* Properties of the session cache.                                        *)
(***************************************************************************)
\* the request's get_client_for_cookies call has returned a client
Acquired(r) == requests[r].acq \in {"hit", "created"}

\* client.init calls the request has made
InitCalls(r) == IF requests[r].acq \in {"pending", "created", "failed"} THEN 1 ELSE 0

\* C1: get_client_for_cookies returns the cached client only if its liveness
\* flag is true at the moment of the check; when the stored client is dead
\* its entry is removed and a client that was never initialised before is
\* constructed, and that one, freshly initialised and live, is what the call
\* returns.
C1_NoStaleReuse ==
    [][ /\ Len(requests') > Len(requests) =>
             LET rq == requests'[Len(requests')]
                 k == rq.key
             IN  /\ rq.acq = "hit" =>
                       /\ InCache(client_cache, k)
                       /\ CacheGet(client_cache, k) = rq.client
                       /\ clients[rq.client].running
                 /\ (InCache(client_cache, k)
                        /\ ~clients[CacheGet(client_cache, k)].running) =>
                       /\ rq.acq = "pending"
                       /\ ~InCache(client_cache', k)
                       /\ rq.client \notin 1..Len(clients)
                       /\ clients'[rq.client].state = "new"
        /\ \A r \in 1..Len(requests) :
             (requests[r].acq = "pending" /\ requests'[r].acq = "created") =>
                 /\ requests'[r].client = requests[r].client
                 /\ clients[requests[r].client].state = "new"
                 /\ clients'[requests[r].client].running
                 /\ CacheGet(client_cache', requests[r].key) = requests[r].client
      ]_vars

\* a request found the entry of its key dead, removed it and got a new client
C1_Witness ==
    \E r \in Reqs :
        /\ requests[r].acq = "created"
        /\ \E i \in 1..Len(client_cache) :
              /\ client_cache[i].key = requests[r].key
              /\ client_cache[i].client = NoClient
        /\ \E q \in requests[r].before :
              /\ requests[q].key = requests[r].key
              /\ Acquired(q)
              /\ requests[q].client # requests[r].client
              /\ ~clients[requests[q].client].running

\* no other acquire for the key of r1 and r2 overlaps the two calls: each
\* ended before r1 began, began after r2 ended, or lies between the two
NoOtherAcquire(r1, r2) ==
    \A q \in Reqs \ {r1, r2} :
        (requests[q].acq # "none" /\ requests[q].key = requests[r1].key) =>
            \/ q \in requests[r1].before
            \/ r2 \in requests[q].before
            \/ (r1 \in requests[q].before /\ q \in requests[r2].before)

Sequential(r1, r2) ==
    /\ r1 \in requests[r2].before
    /\ requests[r1].key = requests[r2].key
    /\ Acquired(r1)
    /\ requests[r2].acq # "pending"
    /\ clients[requests[r1].client].running
    /\ NoOtherAcquire(r1, r2)

\* C2: of two sequential acquire calls with the same identity pair, with the
\* session live throughout, the second returns the client the first returned
\* without calling init; when the first call is the one that created the
\* session, init is called exactly once across the two.
C2_SequentialReuse ==
    \A r1 \in Reqs, r2 \in Reqs :
        Sequential(r1, r2) =>
            /\ requests[r2].acq = "hit"
            /\ requests[r2].client = requests[r1].client
            /\ InitCalls(r2) = 0
            /\ requests[r1].acq = "created" => InitCalls(r1) + InitCalls(r2) = 1

\* the initialised, live sessions that are not stored in the cache
Leaked ==
    {c \in 1..Len(clients) :
        /\ clients[c].state = "ok"
        /\ clients[c].running
        /\ c \notin CacheClients(client_cache)}

\* C3: however many requests race to create the entry of one new key, at
\* most one initialised session ends up outside the cache.
C3_AtMostOneLeaked == Cardinality(Leaked) <= 1

(***************************************************************************)
(* Properties of the identity check and of the error statuses.             *)
(***************************************************************************)
\* the primary token of the request's cookie header is absent or empty
NoPrimaryToken(cookie_header) ==
    ~Truthy(extract_cookies_from_request(cookie_header)[1])

\* the six content-producing endpoints
ContentEndpoints ==
    {"generate", "chat", "generate-image", "edit-image", "generate-with-files",
     "download-image"}

\* the request is one of a content-producing endpoint without primary token
Refused(rq) == rq.ep \in ContentEndpoints /\ NoPrimaryToken(rq.cookie)

\* C4: on each of the six endpoints a request whose primary token is absent
\* or empty is answered 400 before get_client_for_cookies is called: it gets
\* no client, makes no upstream init or generation call, creates no file, and
\* the step that answers it leaves the cache and the clients as they were.
C4_MissingTokenIs400 ==
    /\ [](\A r \in Reqs :
            Refused(requests[r]) =>
                /\ requests[r].status = 400
                /\ requests[r].pc = "done"
                /\ requests[r].acq = "none"
                /\ requests[r].client = NoClient
                /\ requests[r].calls = <<>>
                /\ \A f \in fs : f[1] # r)
    /\ [][ (/\ Len(requests') > Len(requests)
            /\ Refused(requests'[Len(requests')])) =>
               /\ client_cache' = client_cache
               /\ clients' = clients
         ]_vars

\* download-image has answered 400 to a request whose primary token is
\* present but empty, received after another request's acquire had ended and
\* while the cache held a session
C4_Witness ==
    /\ CacheUsed(client_cache) > 0
    /\ \E r \in Reqs :
          /\ requests[r].status = 400
          /\ requests[r].ep = "download-image"
          /\ requests[r].cookie = CookieEmptyPsid
          /\ requests[r].before # {}

\* C5: on each of the six content-producing endpoints, a request whose
\* client.init failed is answered 401.
C5_InitFailureIs401 ==
    \A r \in Reqs :
        (requests[r].ep \in ContentEndpoints /\ requests[r].acq = "failed") =>
            requests[r].status = 401

\* C6: a failed init stores nothing: every client in the cache, and every
\* client a request was given, completed its init, the client of a failed
\* init is never stored nor handed out, and an acquire for the same key that
\* begins after the failure gets another client.
C6_FailedInitNotCached ==
    /\ \A c \in CacheClients(client_cache) : clients[c].state = "ok"
    /\ \A r \in Reqs : Acquired(r) => clients[requests[r].client].state = "ok"
    /\ \A r \in Reqs :
          requests[r].acq = "failed" =>
              /\ requests[r].client \notin CacheClients(client_cache)
              /\ \A q \in Reqs \ {r} : requests[q].client # requests[r].client

\* an init failed, and a later request with the same key initialised a new
\* client that is now cached
C6_Witness ==
    \E r \in Reqs, q \in Reqs :
        /\ requests[r].acq = "failed"
        /\ r \in requests[q].before
        /\ requests[q].key = requests[r].key
        /\ requests[q].acq = "created"
        /\ requests[q].client \in CacheClients(client_cache)

(***************************************************************************)
(* Properties of shutdown_event.                                           *)
(***************************************************************************)
\* no get_client_for_cookies call overlaps the run of the shutdown hook (none
\* was suspended in client.init when the event fired, none began while the
\* hook awaited a close), and none has begun since the hook ended
UndisturbedShutdown == shutdown.quiet /\ ~shutdown.late

\* C7: when the shutdown event fires with no acquire in progress, it does not
\* fail, and once it has completed the cache is empty, every client that was
\* stored has been examined, each one found live has had close invoked
\* exactly once, and no other client has had close invoked.
C7_ShutdownClosesLive ==
    UndisturbedShutdown =>
        /\ shutdown.pc # "failed"
        /\ shutdown.pc = "done" =>
              /\ client_cache = <<>>
              /\ shutdown.stored = shutdown.seenLive \cup shutdown.seenDead
              /\ \A c \in shutdown.seenLive : clients[c].closes = 1
              /\ \A c \in 1..Len(clients) \ shutdown.seenLive : clients[c].closes = 0

\* shutdown completed over a cache holding a live and a dead session
C7_Witness ==
    /\ shutdown.pc = "done"
    /\ UndisturbedShutdown
    /\ shutdown.seenLive # {}
    /\ shutdown.seenDead # {}

\* C8: every session that was initialised and is live when shutdown runs has
\* been closed once shutdown has completed.
C8_AllLiveSessionsClosed ==
    (shutdown.pc = "done" /\ UndisturbedShutdown) =>
        \A c \in 1..Len(clients) :
            (clients[c].state = "ok" /\ clients[c].running) => clients[c].closes > 0

(***************************************************************************)
(* Properties of generate_image.                                           *)
(***************************************************************************)
ExpectedPrompts ==
    << <<"Create an image of ", "a cat">>,
       <<"Generate a picture showing ", "a cat">>,
       <<"Draw ", "a cat">>,
       <<"Make an image: ", "a cat">> >>

\* the call returned at least one image with a non-empty URL
GaveImage(o) ==
    /\ o.kind = "returned"
    /\ \E j \in 1..Len(o.out.images) : Len(o.out.images[j].url) > 0

NonEmptyUrls(images) ==
    LET kept == SelectSeq(images, LAMBDA img : Len(img.url) > 0)
    IN  [j \in 1..Len(kept) |-> kept[j].url]

\* C9: generate_image sends the four wrapped prompts in their fixed order,
\* one upstream call each and never a fifth; the first call that returns an
\* image with a non-empty URL ends the request with 200 and that call's text
\* and images, and no call follows it; a call that raises, or returns no
\* such image, is followed by the next prompt while one is left.
C9_TemplateLoop ==
    \A r \in Reqs :
        requests[r].ep = "generate-image" =>
            LET rq == requests[r]
                n == Len(rq.calls)
                m == Len(rq.outcomes)
            IN  /\ n <= 4
                /\ \A i \in 1..n : rq.calls[i] = Call(ExpectedPrompts[i], <<>>)
                /\ n = IF rq.pc = "call" THEN m + 1 ELSE m
                /\ \A i \in 1..m :
                      IF GaveImage(rq.outcomes[i])
                      THEN /\ i = m
                           /\ rq.status = 200
                           /\ rq.body.text = rq.outcomes[i].out.text
                           /\ [j \in 1..Len(rq.body.images) |-> rq.body.images[j].url]
                                 = NonEmptyUrls(rq.outcomes[i].out.images)
                      ELSE i < 4 => n > i
                /\ rq.status = 200 => (m >= 1 /\ GaveImage(rq.outcomes[m]))

\* the first call raised, the next two gave no image, the fourth gave one
C9_Witness ==
    \E r \in Reqs :
        /\ requests[r].status = 200
        /\ Len(requests[r].outcomes) = 4
        /\ requests[r].outcomes[1].kind = "raised"
        /\ requests[r].outcomes[3].kind = "returned"

\* the calls of the request that raised
RaisedCalls(rq) == {i \in 1..Len(rq.outcomes) : rq.outcomes[i].kind = "raised"}

LastOf(S) == CHOOSE i \in S : \A j \in S : j <= i

\* the request tried all four prompts and none gave an image
Exhausted(rq) ==
    /\ rq.ep = "generate-image"
    /\ rq.pc = "done"
    /\ Len(rq.outcomes) = 4
    /\ \A i \in 1..4 : ~GaveImage(rq.outcomes[i])

\* C10 as claimed: when no prompt yields an image the response is 500 with a
\* non-empty detail that carries the message of the last call that raised,
\* and the generic reason only if no call raised.
C10_DetailOfLastRaise ==
    \A r \in Reqs :
        Exhausted(requests[r]) =>
            LET rq == requests[r] IN
            /\ rq.status = 500
            /\ rq.detail # <<>>
            /\ RaisedCalls(rq) # {} =>
                  rq.detail = <<"Failed to generate image: ">>
                              \o Str(rq.outcomes[LastOf(RaisedCalls(rq))].msg)
            /\ rq.detail = <<"Failed to generate image: ",
                             "Failed to generate image with all prompt variations">>
                  => RaisedCalls(rq) = {}

\* C10 amended: when no prompt yields an image the response is 500 with a
\* non-empty detail that carries the reason recorded for the fourth call:
\* its exception message if it raised (the generic reason if that message
\* is empty), the no-image reason naming the fourth prompt if it returned.
C10_DetailOfLastCall ==
    \A r \in Reqs :
        Exhausted(requests[r]) =>
            LET rq == requests[r]
                last == rq.outcomes[4]
            IN  /\ rq.status = 500
                /\ rq.detail # <<>>
                /\ rq.detail = <<"Failed to generate image: ">> \o
                      (IF last.kind = "raised"
                       THEN IF last.msg # "" THEN <<last.msg>>
                            ELSE <<"Failed to generate image with all prompt variations">>
                       ELSE <<"No images generated with prompt: ",
                              "Make an image: ", "a cat">>)

\* the first call raised with a message and the fourth returned no image
C10_Witness ==
    \E r \in Reqs :
        /\ Exhausted(requests[r])
        /\ requests[r].outcomes[1].kind = "raised"
        /\ requests[r].outcomes[1].msg # ""
        /\ requests[r].outcomes[4].kind = "returned"

(***************************************************************************)
(* Properties of edit_image and generate_with_files.                       *)
(***************************************************************************)
\* the temporary files of request r that exist
FilesOf(r) == {f \in fs : f[1] = r}

\* request r is an edit-image or generate-with-files request that got its
\* client and has been answered
FileRequestDone(r) ==
    /\ requests[r].ep \in {"edit-image", "generate-with-files"}
    /\ Acquired(r)
    /\ requests[r].pc = "done"

\* C11: once an edit-image or generate-with-files request that got its
\* client has been answered, none of the temporary files created for it
\* exists, whichever way it ended (every os.unlink that was called having
\* succeeded).
C11_NoTempFileLeft ==
    \A r \in Reqs :
        (FileRequestDone(r) /\ requests[r].unlink_failed = {}) => FilesOf(r) = {}

\* the response the upstream call of rq determines: its shaped result, or
\* the 500 that carries its message
UpstreamResponse(rq) ==
    LET o == rq.outcomes[1] IN
    IF o.kind = "returned"
    THEN [status |-> 200, detail |-> <<>>,
          body |-> [text |-> o.out.text, images |-> ShapeImages(o.out.images)]]
    ELSE [status |-> 500, detail |-> <<FailurePrefix(rq.ep)>> \o Str(o.msg),
          body |-> NoBody]

\* C12: in edit-image and generate-with-files an os.unlink that raises is
\* swallowed: the request is answered as its upstream call determines (the
\* shaped result, or the 500 with the upstream message), and every staged
\* file whose unlink did not raise is gone.
C12_ReleaseFailureSwallowed ==
    \A r \in Reqs :
        (FileRequestDone(r) /\ requests[r].outcomes # <<>>) =>
            LET rq == requests[r] IN
            /\ [status |-> rq.status, detail |-> rq.detail, body |-> rq.body]
                  = UpstreamResponse(rq)
            /\ FilesOf(r) \cap Rng(rq.temp_files) \subseteq rq.unlink_failed

(***************************************************************************)
(* Properties of chat_with_history.                                        *)
(***************************************************************************)
\* the three continuation fields of a chat request, in order
ContinuationFields(rq) == <<rq.chat_id, rq.reply_id, rq.reply_candidate_id>>

\* the values of the fields that satisfy Given, in order
ValuesOf(fields, Given(_)) ==
    LET kept == SelectSeq(fields, Given) IN [i \in 1..Len(kept) |-> kept[i].v]

IsPresent(field) == field.some

IsNonEmpty(field) == field.some /\ Len(field.v) > 0

\* start_chat has been called for request r
ChatStarted(r) ==
    /\ requests[r].ep = "chat"
    /\ Acquired(r)
    /\ requests[r].pc \in {"call", "done"}

\* C13 as claimed: the metadata passed to start_chat is the sequence of the
\* fields that are present in the request (not None), in the order chat_id,
\* reply_id, reply_candidate_id, and nothing is passed when none is present.
C13_MetadataOfPresent ==
    \A r \in Reqs :
        ChatStarted(r) =>
            LET given == ValuesOf(ContinuationFields(requests[r]), IsPresent)
            IN  requests[r].metadata = IF given = <<>> THEN None ELSE Some(given)

\* C13 amended: the metadata passed to start_chat is the sequence of the
\* fields that are present and not the empty string, in the order chat_id,
\* reply_id, reply_candidate_id, with no placeholder for the others (its
\* length is the number of such fields), and None is passed when there is
\* no such field.
C13_MetadataOfNonEmpty ==
    \A r \in Reqs :
        ChatStarted(r) =>
            LET given == ValuesOf(ContinuationFields(requests[r]), IsNonEmpty)
                n == Cardinality({i \in 1..3 :
                        IsNonEmpty(ContinuationFields(requests[r])[i])})
            IN  /\ requests[r].metadata = IF n = 0 THEN None ELSE Some(given)
                /\ requests[r].metadata.some => Len(requests[r].metadata.v) = n

\* a chat request without chat_id, with reply_id "" and a reply_candidate_id
\* has passed exactly its reply_candidate_id
C13_Witness ==
    \E r \in Reqs :
        /\ ChatStarted(r)
        /\ requests[r].chat_id = None
        /\ requests[r].reply_id = Some(<<>>)
        /\ requests[r].reply_candidate_id = Some(<<"r", "c", "1">>)
        /\ requests[r].metadata = Some(<< <<"r", "c", "1">> >>)

(***************************************************************************)
(* Properties of the handlers' error paths.                                *)
(***************************************************************************)
SingleCallEndpoints == {"generate", "chat", "edit-image", "generate-with-files"}

\* the upstream generation or chat call of request r raised
UpstreamRaised(r) ==
    /\ requests[r].outcomes # <<>>
    /\ requests[r].outcomes[Len(requests[r].outcomes)].kind = "raised"

\* C14: generate, chat, edit-image and generate-with-files make at most one
\* upstream call; when that call raises the request is answered 500 with
\* that single call made.  Only generate-image calls again, at most once per
\* prompt template.
C14_FailedCallNotRetried ==
    \A r \in Reqs :
        /\ requests[r].ep \in SingleCallEndpoints =>
              /\ Len(requests[r].calls) <= 1
              /\ UpstreamRaised(r) =>
                    /\ requests[r].pc = "done"
                    /\ requests[r].status = 500
                    /\ Len(requests[r].calls) = 1
                    /\ Len(requests[r].outcomes) = 1
        /\ requests[r].ep = "generate-image" =>
              Len(requests[r].calls) <= Len(Templates)
        /\ requests[r].ep = "download-image" => requests[r].calls = <<>>
        /\ requests[r].ep = "test-image-gen" => Len(requests[r].calls) <= 1

\* a generate-with-files request with two uploads was answered 500 after
\* its upstream call raised
C14_Witness ==
    \E r \in Reqs :
        /\ requests[r].ep = "generate-with-files"
        /\ Len(requests[r].temp_files) = 2
        /\ UpstreamRaised(r)
        /\ requests[r].status = 500
        /\ requests[r].detail = <<"Failed to generate content with files: ", "timeout">>

\* request r is a download-image request that passed the identity check
DownloadChecked(r) ==
    /\ requests[r].ep = "download-image"
    /\ requests[r].acq # "none"

\* a step of the download of request r failed: client.init raised, save
\* raised, or save returned no path or the path of a file that is missing
DownloadStepFailed(r) ==
    \/ requests[r].acq = "failed"
    \/ /\ requests[r].outcomes # <<>>
       /\ requests[r].outcomes[1].kind \in {"raised", "missing", "none"}

\* C15: a download-image request that passed the identity check and failed
\* at any later step (acquisition, save, saved file missing) is answered
\* 500, the only other answer being the 200 of a download whose every step
\* succeeded, and its temporary directory does not exist once it is
\* answered.
C15_DownloadFailureIs500 ==
    \A r \in Reqs :
        DownloadChecked(r) =>
            /\ DownloadStepFailed(r) =>
                  requests[r].pc = "done" /\ requests[r].status = 500
            /\ requests[r].pc = "done" =>
                  /\ requests[r].status = 500 <=> DownloadStepFailed(r)
                  /\ requests[r].status \in {200, 500}
                  /\ TempDir(r) \notin fs

\* a download whose save returned the path of a file that does not exist
\* was answered 500 and its temporary directory is gone
C15_Witness ==
    \E r \in Reqs :
        /\ DownloadChecked(r)
        /\ requests[r].outcomes # <<>>
        /\ requests[r].outcomes[1].kind = "missing"
        /\ requests[r].status = 500
        /\ TempDir(r) \notin fs

(***************************************************************************)
(* Properties of extract_cookies_from_request and of the cache key.        *)
(***************************************************************************)
\* the segment lists a header of SpecExtract is made of
HeaderSegments ==
    [h \in ExtractCookies |-> {segs \in SegmentLists : CookieHeader(segs) = h}]

\* the values of the segments of segs whose cookie name is name
ValuesNamed(segs, name) ==
    {segs[i].value : i \in {j \in 1..Len(segs) : segs[j].name = name}}

\* token is what the claim allows for the cookie name: None when no segment
\* has the name, else the whole value (the text after the first "=") of a
\* segment that has it
TokenOfSegments(token, segs, name) ==
    IF ValuesNamed(segs, name) = {} THEN token = None
    ELSE token.some /\ token.v \in ValuesNamed(segs, name)

\* C17: for every cookie header, the primary (secondary) token the handler
\* gets from extract_cookies_from_request is the text after the first "=" of
\* a ";"-separated, trimmed segment whose name is the primary (secondary)
\* cookie name, later "=" included; it is None, not "", when the header has
\* no segment of that name, so a secondary segment never gives the primary
\* token.
C17_ExtractedTokens ==
    \A r \in Reqs :
        requests[r].cookie \in ExtractCookies =>
            \A segs \in HeaderSegments[requests[r].cookie] :
                /\ TokenOfSegments(requests[r].req_psid, segs, PsidName)
                /\ TokenOfSegments(requests[r].req_psidts, segs, PsidtsName)

\* a request whose header is "\n __Secure-1PSID=b=c", a no-break space,
\* ";__Secure-1PSIDTS= " got
\* the primary token "b=c" and the secondary token "", and one whose header
\* has only a secondary segment got no primary token
C17_Witness ==
    \E r \in Reqs :
        /\ requests[r].cookie =
              CookieHeader(<<Segment(<<"\n", " ">>, PsidName, <<"b", "=", "c">>, <<" ">>),
                             Segment(<<>>, PsidtsName, <<>>, <<" ">>)>>)
        /\ requests[r].req_psid = Some(<<"b", "=", "c">>)
        /\ requests[r].req_psidts = Some(<<>>)
        /\ Acquired(r)

\* requests r1 and r2 passed the identity check with the same primary token
SamePrimary(r1, r2) ==
    /\ requests[r1].acq # "none"
    /\ requests[r2].acq # "none"
    /\ requests[r1].req_psid = requests[r2].req_psid

\* requests r1 and r2 do not share a cache entry: their keys differ, and so
\* do the clients they were given
NoSharedEntry(r1, r2) ==
    /\ requests[r1].key # requests[r2].key
    /\ requests[r1].client # requests[r2].client

\* C16 as claimed: of two requests with the same primary token, one with a
\* secondary token (of any value, "" included) and one without, the keys
\* differ and the two never share a cache entry.
C16_SecondaryPresenceInKey ==
    \A r1, r2 \in Reqs :
        (/\ SamePrimary(r1, r2)
         /\ requests[r1].req_psidts.some
         /\ ~requests[r2].req_psidts.some) => NoSharedEntry(r1, r2)

\* C16 amended: of two requests with the same primary token, one with a
\* non-empty secondary token and one with none or with an empty one, the
\* keys differ and the two never share a cache entry; a request with an
\* empty secondary token and one with none have the same key.
C16_NonEmptySecondaryInKey ==
    \A r1, r2 \in Reqs :
        SamePrimary(r1, r2) =>
            /\ (Truthy(requests[r1].req_psidts) /\ ~Truthy(requests[r2].req_psidts))
                  => NoSharedEntry(r1, r2)
            /\ (~Truthy(requests[r1].req_psidts) /\ ~Truthy(requests[r2].req_psidts))
                  => requests[r1].key = requests[r2].key

\* a request with the tokens (a, x) and a later one with the token a alone
\* were each given a client of their own, both stored in the cache
C16_Witness ==
    \E r1, r2 \in Reqs :
        /\ requests[r1].cookie = CookieAX
        /\ requests[r2].cookie = CookieA
        /\ r1 \in requests[r2].before
        /\ requests[r1].acq = "created"
        /\ requests[r2].acq = "created"
        /\ {requests[r1].client, requests[r2].client} \subseteq CacheClients(client_cache)
        /\ clients[requests[r1].client].running

\* the token pair of request r, an absent secondary token being ""
IdentityPair(r) == <<requests[r].req_psid.v, OrEmpty(requests[r].req_psidts)>>

\* C20: two requests whose token pairs differ, in the primary token or in a
\* non-empty secondary token, have different cache keys and are never given
\* the same client, whatever characters the tokens contain.
C20_DistinctPairsDistinctSessions ==
    \A r1, r2 \in Reqs :
        (/\ Acquired(r1)
         /\ Acquired(r2)
         /\ IdentityPair(r1) # IdentityPair(r2)) => NoSharedEntry(r1, r2)

(***************************************************************************)
(* Properties of close.                                                    *)
(***************************************************************************)
\* the clients whose close is invoked in the step
ClosedInStep ==
    {c \in 1..Len(clients) : clients'[c].closes # clients[c].closes}

\* the step is the arrival of a request that finds a dead client under its
\* key
EvictingStep ==
    /\ Len(requests') > Len(requests)
    /\ requests'[Len(requests')].acq = "pending"
    /\ InCache(client_cache, requests'[Len(requests')].key)

\* C18: close is invoked only by shutdown_event: every step that invokes a
\* close is a step of the shutdown loop, which is then awaiting that close,
\* and no client is closed while shutdown has not begun; a request that
\* finds a dead client under its key removes the entry and leaves that
\* client as it was: the eviction invokes no close.
C18_CloseOnlyAtShutdown ==
    /\ [](\A c \in 1..Len(clients) :
            clients[c].closes > 0 => shutdown.pc # "idle")
    /\ [][ /\ ClosedInStep # {} =>
               /\ requests' = requests
               /\ shutdown'.pc = "closing"
               /\ ClosedInStep = {shutdown'.closing}
           /\ EvictingStep =>
               LET k == requests'[Len(requests')].key
                   dead == CacheGet(client_cache, k)
               IN  /\ ~InCache(client_cache', k)
                   /\ clients'[dead] = clients[dead]
         ]_vars

\* a dead client was evicted by a later request of its caller and is still
\* unclosed after shutdown has closed the client that replaced it
C18_Witness ==
    \E r1, r2 \in Reqs :
        /\ r1 \in requests[r2].before
        /\ requests[r1].key = requests[r2].key
        /\ requests[r1].acq = "created"
        /\ requests[r2].acq = "created"
        /\ Len(requests) = 2
        /\ ~clients[requests[r1].client].running
        /\ clients[requests[r1].client].closes = 0
        /\ clients[requests[r2].client].closes = 1
        /\ shutdown.pc = "done"

\* no request is suspended in client.init
NoAcquireInFlight == \A r \in Reqs : requests[r].pc # "init"

\* C19: a shutdown that overlaps an acquire suspended in client.init, or
\* that is itself suspended in a close while an acquire runs, still
\* completes its loop (it does not raise), and once it and every in-flight
\* acquire have finished (no acquire having begun after the hook ended) the
\* cache is empty, so no live unclosed session is stored in it.
C19_ShutdownToleratesInFlight ==
    ~shutdown.late =>
    /\ shutdown.pc # "failed"
    /\ (shutdown.pc = "done" /\ NoAcquireInFlight) =>
          /\ client_cache = <<>>
          /\ \A c \in CacheClients(client_cache) :
                ~(clients[c].running /\ clients[c].closes = 0)

(***************************************************************************)
(* Frame of the session cache.                                             *)
(***************************************************************************)
\* the keys stored in the dict d
CacheKeys(d) == {d[i].key : i \in {j \in 1..Len(d) : d[j].client # NoClient}}

\* the entry under key k is the same in d1 and d2: absent from both, or
\* present in both with the same client
SameEntry(d1, d2, k) ==
    /\ InCache(d1, k) <=> InCache(d2, k)
    /\ InCache(d1, k) => CacheGet(d1, k) = CacheGet(d2, k)

\* the step is a step of get_client_for_cookies for request r: the request
\* arrives and reaches the lookup, or its client.init returns or raises
AcquireStep(r) ==
    \/ /\ r = Len(requests) + 1
       /\ Len(requests') = r
       /\ requests'[r].acq # "none"
    \/ /\ r \in Reqs
       /\ requests[r].pc = "init"
       /\ requests'[r].pc # "init"

\* C21: a step of get_client_for_cookies for one key leaves the entry under
\* every other key as it was, and every other step of a handler (a request
\* refused for its missing token, the upstream call returning or raising,
\* staging and release of attachments, the save of a download, the shaping
\* of the response) and a session's death leave the whole cache as it was;
\* so the client a failed upstream call used is still the one stored.
C21_CacheFrame ==
    [][ shutdown' = shutdown =>
          IF \E r \in 1..Len(requests') : AcquireStep(r)
          THEN \A r \in 1..Len(requests') :
                  AcquireStep(r) =>
                     \A k \in (CacheKeys(client_cache) \cup CacheKeys(client_cache'))
                                 \ {requests'[r].key} :
                        SameEntry(client_cache, client_cache', k)
          ELSE client_cache' = client_cache
      ]_vars

\* while the cache holds the sessions of two callers, the upstream call of a
\* request of one of them has raised, the request was answered 500, and
\* the session it used is still stored under its key
C21_Witness ==
    \E r \in Reqs :
        /\ UpstreamRaised(r)
        /\ requests[r].ep = "edit-image"
        /\ requests[r].status = 500
        /\ InCache(client_cache, requests[r].key)
        /\ CacheGet(client_cache, requests[r].key) = requests[r].client
        /\ CacheUsed(client_cache) = 2

(***************************************************************************)
(* Round trip of the conversation identifiers.                             *)
(***************************************************************************)
\* the identifiers of a ChatResponse, in the order chat id, reply id, reply
\* candidate id
ResponseIds(rq) ==
    <<rq.chat_response.chat_id, rq.chat_response.reply_id,
      rq.chat_response.reply_candidate_id>>

\* C22: when a chat request carries the chat_id, reply_id and
\* reply_candidate_id of an earlier chat response as its continuation
\* fields, the metadata passed to start_chat holds every non-empty one of
\* them at the position it had in the response: chat id first, reply id
\* second, reply candidate id third.
C22_RoundTripKeepsPositions ==
    \A q \in Reqs :
        (ChatStarted(q) /\ requests[q].echo_of # 0) =>
            LET ids == ResponseIds(requests[requests[q].echo_of]) IN
            \A i \in 1..3 :
                ids[i] # <<>> =>
                    /\ requests[q].metadata.some
                    /\ Len(requests[q].metadata.v) >= i
                    /\ requests[q].metadata.v[i] = ids[i]

====
